---------------------------- MODULE Spec2Model ----------------------------
(***************************************************************************)
(* Model of calc_offsets.py, the Z80 label offset calculator for the AGD   *)
(* engine source: the comma-aware tokenizer, the data-directive sizers,    *)
(* the expression evaluator, the instruction-size classifier z80_size and  *)
(* the single pass of main() that owns the program counter and the label   *)
(* table, followed by the consolidation of the label table by address.     *)
(*                                                                         *)
(* Text is modelled as TLA+ strings, read character by character with      *)
(* SubSeq, so that quoting, comment stripping and the regular expressions  *)
(* of the source are computed the way the source computes them.            *)
(***************************************************************************)
EXTENDS Integers, Sequences, FiniteSets, TLC

VARIABLES lines, pc, labels, size, phase, result, arg, ret, call

vars == <<lines, pc, labels, size, phase, result, arg, ret, call>>

-----------------------------------------------------------------------------
(* Characters and character classes                                        *)

\* the character s[i], "" outside the string
Ch(s, i) == IF i >= 1 /\ i <= Len(s) THEN SubSeq(s, i, i) ELSE ""

CharsOf(s) == {Ch(s, i) : i \in 1..Len(s)}

LowerLetters == "abcdefghijklmnopqrstuvwxyz"

UpperLetters == "ABCDEFGHIJKLMNOPQRSTUVWXYZ"

DecDigits == "0123456789"

HexDigitsLower == "0123456789abcdef"

\* \s of the regular expressions and the characters str.strip() removes
SpaceChars == {" ", "\t", "\n", "\r"}

\* [a-zA-Z_]
IdentStartChars == CharsOf(LowerLetters) \cup CharsOf(UpperLetters) \cup {"_"}

\* [a-zA-Z0-9_], which is also \w on the text the program reads
WordChars == IdentStartChars \cup CharsOf(DecDigits)

\* [a-z_]
LowerStartChars == CharsOf(LowerLetters) \cup {"_"}

\* [0-9a-fA-F]
HexChars == CharsOf(DecDigits) \cup CharsOf("abcdefABCDEF")

QuoteChars == {"'", "\""}

\* index of c in s, 0 when c does not occur
IndexIn(s, c) == IF \E i \in 1..Len(s) : Ch(s, i) = c
                 THEN CHOOSE i \in 1..Len(s) : Ch(s, i) = c
                 ELSE 0

\* str.lower() on one character
LowerCh(c) == IF IndexIn(UpperLetters, c) > 0
              THEN Ch(LowerLetters, IndexIn(UpperLetters, c))
              ELSE c

RECURSIVE Lower(_)
\* str.lower()
Lower(s) == IF s = "" THEN "" ELSE LowerCh(Ch(s, 1)) \o Lower(Tail(s))

\* s[i:] for a 1-based i
From(s, i) == IF i > Len(s) THEN "" ELSE SubSeq(s, i, Len(s))

\* s[:n]
Take(s, n) == IF n <= 0 THEN "" ELSE IF n >= Len(s) THEN s ELSE SubSeq(s, 1, n)

StartsWith(s, p) == Len(s) >= Len(p) /\ Take(s, Len(p)) = p

EndsWith(s, p) == Len(s) >= Len(p) /\ From(s, Len(s) - Len(p) + 1) = p

RECURSIVE SkipSet(_, _, _)
\* the first index >= i of s whose character is not in set (Len(s)+1 if none):
\* where a greedy run of the class that starts at i ends
SkipSet(s, i, set) == IF i <= Len(s) /\ Ch(s, i) \in set
                      THEN SkipSet(s, i + 1, set)
                      ELSE i

RECURSIVE BackSet(_, _, _)
\* the last index <= i of s whose character is not in set (0 if none)
BackSet(s, i, set) == IF i >= 1 /\ Ch(s, i) \in set
                      THEN BackSet(s, i - 1, set)
                      ELSE i

AllIn(s, set) == \A i \in 1..Len(s) : Ch(s, i) \in set

\* str.rstrip('\n\r')
RStripNewline(s) == Take(s, BackSet(s, Len(s), {"\n", "\r"}))

\* str.strip()
Strip(s) == LET a == SkipSet(s, 1, SpaceChars)
                b == BackSet(s, Len(s), SpaceChars)
            IN  IF a > b THEN "" ELSE SubSeq(s, a, b)

RECURSIVE DecValue(_, _)
\* int(s) of a run of decimal digits, acc the value read so far
DecValue(s, acc) == IF s = "" THEN acc
                    ELSE DecValue(Tail(s), acc * 10 + (IndexIn(DecDigits, Ch(s, 1)) - 1))

RECURSIVE HexValue(_, _)
\* int(s, 16) of a run of hexadecimal digits of either case
HexValue(s, acc) ==
    IF s = "" THEN acc
    ELSE HexValue(Tail(s), acc * 16 + (IndexIn(HexDigitsLower, LowerCh(Ch(s, 1))) - 1))

RECURSIVE DecDigitsOf(_)
DecDigitsOf(n) == IF n < 10 THEN Ch(DecDigits, n + 1)
                  ELSE DecDigitsOf(n \div 10) \o Ch(DecDigits, (n % 10) + 1)

\* str(n) of an integer
DecStr(n) == IF n < 0 THEN "-" \o DecDigitsOf(-n) ELSE DecDigitsOf(n)

RECURSIVE HexDigitsOf(_)
HexDigitsOf(n) == IF n < 16 THEN Ch(HexDigitsLower, n + 1)
                  ELSE HexDigitsOf(n \div 16) \o Ch(HexDigitsLower, (n % 16) + 1)

\* format(n, 'x')
HexStr(n) == IF n < 0 THEN "-" \o HexDigitsOf(-n) ELSE HexDigitsOf(n)

\* int(x, 16) of a string format(n, 'x') produced
HexInt(x) == IF StartsWith(x, "-") THEN -HexValue(Tail(x), 0) ELSE HexValue(x, 0)

-----------------------------------------------------------------------------
(* The known EQU constants, in the order of the dictionary                 *)

CONSTANTS_TABLE ==
    << <<"windowtop", 0>>, <<"windowlft", 0>>, <<"windowhgt", 24>>, <<"windowwid", 32>>,
       <<"numobj", 8>>, <<"mapwid", 4>>,
       <<"simask", 248>>, <<"shrapn", 63926>>, <<"scadtb", 64256>>, <<"map", 64768>>,
       <<"loopa", 23681>>, <<"loopb", 23728>>, <<"loopc", 23729>>,
       <<"platfm", 1>>, <<"wall", 2>>, <<"ladder", 3>>, <<"fodder", 4>>, <<"deadly", 5>>,
       <<"custom", 6>>, <<"water", 7>>, <<"colect", 8>>, <<"numtyp", 9>>,
       <<"numspr", 12>>, <<"tabsiz", 17>>, <<"sprbuf", 204>>, <<"nmesiz", 4>>,
       <<"x", 8>>, <<"y", 9>>, <<"pam1st", 5>>,
       <<"numshr", 55>>, <<"shrsiz", 6>> >>

REGS8 == {"a", "b", "c", "d", "e", "h", "l"}

IsConstant(w) == \E i \in 1..Len(CONSTANTS_TABLE) : CONSTANTS_TABLE[i][1] = w

ConstantValue(w) ==
    CONSTANTS_TABLE[CHOOSE i \in 1..Len(CONSTANTS_TABLE) : CONSTANTS_TABLE[i][1] = w][2]

-----------------------------------------------------------------------------
(* split_commas: split on commas outside quoted strings                    *)

\* parts.append(''.join(current).strip())
RECURSIVE SplitScan(_, _, _, _, _, _)
SplitScan(s, i, parts, current, in_quote, quote_char) ==
    IF i > Len(s)
    THEN IF current # "" THEN Append(parts, Strip(current)) ELSE parts
    ELSE LET ch == Ch(s, i) IN
         IF in_quote
         THEN SplitScan(s, i + 1, parts, current \o ch, ch # quote_char, quote_char)
         ELSE IF ch \in QuoteChars
         THEN SplitScan(s, i + 1, parts, current \o ch, TRUE, ch)
         ELSE IF ch = ","
         THEN SplitScan(s, i + 1, Append(parts, Strip(current)), "", FALSE, quote_char)
         ELSE SplitScan(s, i + 1, parts, current \o ch, FALSE, quote_char)

split_commas(s) == SplitScan(s, 1, <<>>, "", FALSE, "")


-----------------------------------------------------------------------------
(* count_defb and count_defw                                               *)

\* one item of a defb operand list: a quoted string counts its characters
DefbItemSize(p0) ==
    LET p == Strip(p0) IN
    IF p = "" THEN 0
    ELSE IF (StartsWith(p, "'") /\ EndsWith(p, "'"))
            \/ (StartsWith(p, "\"") /\ EndsWith(p, "\""))
    THEN Len(p) - 2
    ELSE 1

RECURSIVE SumDefb(_, _)
SumDefb(parts, count) == IF parts = <<>> THEN count
                         ELSE SumDefb(Tail(parts), count + DefbItemSize(Head(parts)))

count_defb(data) == SumDefb(split_commas(data), 0)

count_defw(data) == Len(split_commas(data)) * 2

-----------------------------------------------------------------------------
(* eval_expr: constants and hexadecimal literals are rewritten to decimal  *)
(* text, then the text is evaluated; any failure yields 0.                 *)

RECURSIVE ConstSub(_, _)
\* re.sub(r'\bk\b', str(v), e) for every constant k: a whole word that is a
\* constant name becomes its decimal value (the values are digit runs, which
\* are no constant names, so the substitutions do not interact)
ConstSub(e, i) ==
    IF i > Len(e) THEN ""
    ELSE IF Ch(e, i) \in WordChars
    THEN LET j == SkipSet(e, i, WordChars)
             w == SubSeq(e, i, j - 1)
         IN  (IF IsConstant(w) THEN DecStr(ConstantValue(w)) ELSE w) \o ConstSub(e, j)
    ELSE Ch(e, i) \o ConstSub(e, i + 1)

RECURSIVE HexSub(_, _, _)
\* re.sub(prefix + r'([0-9a-fA-F]+)', decimal, e) for prefix "$" or "0x"
HexSub(e, i, prefix) ==
    IF i > Len(e) THEN ""
    ELSE IF StartsWith(From(e, i), prefix) /\ Ch(e, i + Len(prefix)) \in HexChars
    THEN LET j == SkipSet(e, i + Len(prefix), HexChars)
         IN  DecStr(HexValue(SubSeq(e, i + Len(prefix), j - 1), 0)) \o HexSub(e, j, prefix)
    ELSE Ch(e, i) \o HexSub(e, i + 1, prefix)

\* The result of evaluating a piece of text: ok is FALSE when eval raises.
Fail == [ok |-> FALSE, val |-> 0]

Ok(v) == [ok |-> TRUE, val |-> v]

BlankChars == {" ", "\t"}

\* The name v is the loop variable of eval_expr itself, left holding the last
\* value of the constant table; every other name the evaluation can see is
\* unbound or no number, and raises.
NameValue(w) == IF w = "v" THEN Ok(CONSTANTS_TABLE[Len(CONSTANTS_TABLE)][2]) ELSE Fail

RECURSIVE OpScan(_, _, _, _, _, _)
\* One pass over the text of an expression: whether its parentheses balance,
\* and the places of its last binary + or - and of its last * outside
\* parentheses (0 when there is none).  A + or - is binary when an operand
\* ends before it.
OpScan(s, i, depth, operand, add, mul) ==
    IF i > Len(s) THEN [balanced |-> depth = 0, add |-> add, mul |-> mul]
    ELSE IF Ch(s, i) \in BlankChars THEN OpScan(s, i + 1, depth, operand, add, mul)
    ELSE IF Ch(s, i) = "(" THEN OpScan(s, i + 1, depth + 1, FALSE, add, mul)
    ELSE IF Ch(s, i) = ")"
    THEN IF depth = 0 THEN [balanced |-> FALSE, add |-> 0, mul |-> 0]
         ELSE OpScan(s, i + 1, depth - 1, TRUE, add, mul)
    ELSE IF Ch(s, i) \in {"+", "-"}
    THEN OpScan(s, i + 1, depth, FALSE, IF depth = 0 /\ operand THEN i ELSE add, mul)
    ELSE IF Ch(s, i) = "*"
    THEN OpScan(s, i + 1, depth, FALSE, add, IF depth = 0 THEN i ELSE mul)
    ELSE OpScan(s, i + 1, depth, TRUE, add, mul)

\* the value of two evaluated operands under a binary operator
Binary(op, l, r) ==
    IF ~(l.ok /\ r.ok) THEN Fail
    ELSE IF op = "+" THEN Ok(l.val + r.val)
    ELSE IF op = "-" THEN Ok(l.val - r.val)
    ELSE Ok(l.val * r.val)

RECURSIVE PyValue(_)
\* eval() on integer arithmetic: decimal literals, names, unary and binary
\* + and -, binary *, parentheses; * binds tighter than + and -, which
\* associate to the left.  Texts with other operators are not drawn.
PyValue(s) ==
    LET t  == Strip(s)
        sc == OpScan(t, 1, 0, FALSE, 0, 0)
    IN  IF t = "" \/ ~sc.balanced THEN Fail
        ELSE IF sc.add > 0
        THEN Binary(Ch(t, sc.add), PyValue(Take(t, sc.add - 1)), PyValue(From(t, sc.add + 1)))
        ELSE IF sc.mul > 0
        THEN Binary("*", PyValue(Take(t, sc.mul - 1)), PyValue(From(t, sc.mul + 1)))
        ELSE IF Ch(t, 1) \in {"+", "-"}
        THEN Binary(Ch(t, 1), Ok(0), PyValue(From(t, 2)))
        ELSE IF Ch(t, 1) = "(" /\ Ch(t, Len(t)) = ")"
        THEN PyValue(SubSeq(t, 2, Len(t) - 1))
        ELSE IF AllIn(t, CharsOf(DecDigits))
        THEN IF Len(t) > 1 /\ Ch(t, 1) = "0" /\ ~AllIn(t, {"0"}) THEN Fail
             ELSE Ok(DecValue(t, 0))
        ELSE IF Ch(t, 1) \in IdentStartChars /\ AllIn(t, WordChars)
        THEN NameValue(t)
        ELSE Fail

\* int(eval(e)) inside try/except: 0 when the evaluation raises
PyEval(e) == IF PyValue(e).ok THEN PyValue(e).val ELSE 0

eval_expr(expr) ==
    PyEval(HexSub(HexSub(ConstSub(Lower(Strip(expr)), 1), 1, "$"), 1, "0x"))

-----------------------------------------------------------------------------
(* Operand shapes                                                          *)

is_reg8(s) == Strip(s) \in REGS8

is_hl_indirect(s) == Strip(s) = "(hl)"

\* re.match(r'\((ix|iy)[+\-]', s.strip())
is_ixiy_indirect(s) ==
    LET t == Strip(s) IN
    \E p \in {"(ix+", "(ix-", "(iy+", "(iy-"} : StartsWith(t, p)

-----------------------------------------------------------------------------
(* The regular expressions of z80_size                                     *)

\* the group of  ^<prefix>([a-z_]\w*)\)$ , "" when the text does not match
BareOperand(m, prefix) ==
    LET n    == Len(m)
        name == SubSeq(m, Len(prefix) + 1, n - 1)
    IN  IF /\ StartsWith(m, prefix)
           /\ n >= Len(prefix) + 2
           /\ Ch(m, n) = ")"
           /\ Ch(name, 1) \in LowerStartChars
           /\ AllIn(name, WordChars)
        THEN name
        ELSE ""

_known_indirect == {"hl", "bc", "de"}

\* a variant that takes every name starting with i for an index register
IsSynthOperandNoI(name) ==
    /\ name # ""
    /\ name \notin _known_indirect
    /\ ~StartsWith(name, "i")

\* the operand is a name, and neither a register pair nor an ix/iy form
IsSynthOperand(name) ==
    /\ name # ""
    /\ name \notin _known_indirect
    /\ ~StartsWith(name, "ix")
    /\ ~StartsWith(name, "iy")

\* ldsynth: ^ld ([bcde]),\(([a-z_]\w*)\)$
LdSynthOperand(m) ==
    IF \E r \in {"b", "c", "d", "e"} : StartsWith(m, "ld " \o r \o ",(")
    THEN BareOperand(m, Take(m, 6))
    ELSE ""

simple1 ==
    {"nop", "ret", "ei", "di", "halt", "exx", "ccf", "scf", "cpl",
     "rra", "rrca", "rla", "rlca", "daa",
     "ex de,hl", "ex af,af'", "ex (sp),hl",
     "jp (hl)", "ld sp,hl"}

block_instrs ==
    {"ldir", "lddr", "cpir", "cpdr", "inir", "indr", "otir", "otdr",
     "ldi", "ldd", "cpi", "cpd", "ini", "ind", "outi", "outd"}

\* ^(push|pop) (\w+)$ : the register, "" when the text does not match
PushPopReg(m) ==
    LET rest == IF StartsWith(m, "push ") THEN From(m, 6)
                ELSE IF StartsWith(m, "pop ") THEN From(m, 5)
                ELSE ""
    IN  IF rest # "" /\ AllIn(rest, WordChars) THEN rest ELSE ""

\* ^(w1|w2|...) (.+)$ : the text after the first space when the text before
\* it is one of the words and something follows, "" otherwise
AfterWord(m, words) ==
    LET k == SkipSet(m, 1, CharsOf(LowerLetters)) IN
    IF k <= Len(m) /\ Ch(m, k) = " " /\ Take(m, k - 1) \in words /\ k < Len(m)
    THEN From(m, k + 1)
    ELSE ""

\* ^(bit|set|res) ([0-7]),(.+)$ : group 3, "" when the text does not match
BitOperand(m) ==
    IF /\ \E w \in {"bit ", "set ", "res "} : StartsWith(m, w)
       /\ Ch(m, 5) \in CharsOf("01234567")
       /\ Ch(m, 6) = ","
       /\ Len(m) >= 7
    THEN From(m, 7)
    ELSE ""

\* ^in (\w+),\((.+)\)$
InMatch(m) ==
    LET k == SkipSet(m, 4, WordChars) IN
    /\ StartsWith(m, "in ")
    /\ k > 4
    /\ StartsWith(From(m, k), ",(")
    /\ Len(m) >= k + 3
    /\ Ch(m, Len(m)) = ")"

\* ^out \((.+)\),(\w+)$
OutMatch(m) ==
    /\ StartsWith(m, "out (")
    /\ \E j \in 7..(Len(m) - 2) :
          /\ SubSeq(m, j, j + 1) = "),"
          /\ AllIn(From(m, j + 2), WordChars)

\* ^ld (.+),(.+)$ : the index of the comma between the two greedy groups,
\* the last comma with at least one character on each side; 0 when none
LdComma(m) ==
    LET cs == {j \in 5..(Len(m) - 1) : Ch(m, j) = ","} IN
    IF StartsWith(m, "ld ") /\ cs # {}
    THEN CHOOSE j \in cs : \A k \in cs : k <= j
    ELSE 0

\* the case table of the LD instructions; 0 when no case returns
LdSize(dst, src) ==
    IF is_reg8(dst) /\ is_reg8(src) THEN 1
    ELSE IF is_reg8(dst) /\ is_hl_indirect(src) THEN 1
    ELSE IF is_hl_indirect(dst) /\ is_reg8(src) THEN 1
    ELSE IF is_hl_indirect(dst) THEN 2
    ELSE IF is_reg8(dst) /\ ~StartsWith(src, "(") THEN 2
    ELSE IF is_reg8(dst) /\ is_ixiy_indirect(src) THEN 3
    ELSE IF is_ixiy_indirect(dst) /\ is_reg8(src) THEN 3
    ELSE IF is_ixiy_indirect(dst) THEN 4
    ELSE IF dst = "a" /\ src \in {"(bc)", "(de)"} THEN 1
    ELSE IF dst \in {"(bc)", "(de)"} /\ src = "a" THEN 1
    ELSE IF dst = "sp" /\ src \in {"ix", "iy"} THEN 2
    ELSE IF dst \in {"bc", "de", "hl", "sp"}
    THEN IF StartsWith(src, "(")
         THEN IF is_ixiy_indirect(src) THEN 3
              ELSE IF dst = "hl" THEN 3
              ELSE 4
         ELSE 3
    ELSE IF dst \in {"ix", "iy"} THEN 4
    ELSE IF /\ StartsWith(dst, "(") /\ ~is_hl_indirect(dst) /\ ~is_ixiy_indirect(dst)
            /\ dst \notin {"(bc)", "(de)"}
            /\ src \in {"a", "hl", "bc", "de", "sp", "ix", "iy"}
    THEN IF src \in {"a", "hl"} THEN 3 ELSE 4
    ELSE IF /\ dst = "a" /\ StartsWith(src, "(") /\ src \notin {"(bc)", "(de)", "(hl)"}
            /\ ~is_ixiy_indirect(src)
    THEN 3
    ELSE 0

AluOps == <<"add", "adc", "sub", "sbc", "and", "or", "xor", "cp">>

\* the operand of the first ALU mnemonic the text starts with
AluMatch(m) == \E i \in 1..Len(AluOps) :
                   StartsWith(m, AluOps[i] \o " ") \/ StartsWith(m, AluOps[i] \o ",")

AluSize(m) ==
    LET i == CHOOSE i \in 1..Len(AluOps) :
                 /\ StartsWith(m, AluOps[i] \o " ") \/ StartsWith(m, AluOps[i] \o ",")
                 /\ \A k \in 1..(i - 1) :
                        ~(StartsWith(m, AluOps[k] \o " ") \/ StartsWith(m, AluOps[k] \o ","))
        rest    == Strip(From(m, Len(AluOps[i]) + 1))
        operand == IF StartsWith(rest, "a,") THEN Strip(From(rest, 3)) ELSE rest
    IN  IF is_reg8(operand) THEN 1
        ELSE IF is_hl_indirect(operand) THEN 1
        ELSE IF is_ixiy_indirect(operand) THEN 3
        ELSE 2

\* a variant that charges one byte for a text no rule sizes
UnknownOneByte(m) == 1

\* UNKNOWN INSTRUCTION: the text is reported and adds no bytes
UnknownInstruction(m) == 0

\* z80_size once the text is stripped and not empty: the ordered decision
\* table, the first rule that returns decides
SizeOfStripped(m) ==
    LET pp   == PushPopReg(m)
        idop == Strip(AfterWord(m, {"inc", "dec"}))
        cbop == Strip(BitOperand(m))
        rsop == Strip(AfterWord(m, {"rl", "rr", "rlc", "rrc", "sla", "sra", "srl", "sll"}))
        j    == LdComma(m)
        ld   == LdSize(Strip(SubSeq(m, 4, j - 1)), Strip(From(m, j + 1)))
    IN
    \* simplified / pseudo instructions
    IF StartsWith(m, "ld hl,(ix+") \/ StartsWith(m, "ld hl,(iy+") THEN 6
    ELSE IF IsSynthOperand(LdSynthOperand(m)) THEN 2
    ELSE IF IsSynthOperand(BareOperand(m, "and (")) THEN 2
    ELSE IF IsSynthOperand(BareOperand(m, "add a,(")) THEN 2
    \* standard instructions
    ELSE IF m \in simple1 THEN 1
    ELSE IF m \in {"ret " \o cc : cc \in {"nz", "z", "nc", "c", "po", "pe", "p", "m"}} THEN 1
    ELSE IF StartsWith(m, "rst ") THEN 1
    ELSE IF pp \in {"af", "bc", "de", "hl"} THEN 1
    ELSE IF pp \in {"ix", "iy"} THEN 2
    ELSE IF m \in {"ex (sp),ix", "ex (sp),iy"} THEN 2
    ELSE IF m \in {"jp (ix)", "jp (iy)"} THEN 2
    ELSE IF m = "neg" THEN 2
    ELSE IF m \in {"reti", "retn"} THEN 2
    ELSE IF m \in {"im 0", "im 1", "im 2"} THEN 2
    ELSE IF m \in {"ld a,i", "ld a,r", "ld i,a", "ld r,a"} THEN 2
    ELSE IF m \in {"rrd", "rld"} THEN 2
    ELSE IF m \in block_instrs THEN 2
    ELSE IF idop # "" /\ (is_reg8(idop) \/ is_hl_indirect(idop)) THEN 1
    ELSE IF idop \in {"bc", "de", "hl", "sp"} THEN 1
    ELSE IF idop \in {"ix", "iy"} THEN 2
    ELSE IF idop # "" /\ is_ixiy_indirect(idop) THEN 3
    ELSE IF m \in {"add hl," \o rr : rr \in {"bc", "de", "hl", "sp"}} THEN 1
    ELSE IF m \in {op \o " hl," \o rr : op \in {"adc", "sbc"}, rr \in {"bc", "de", "hl", "sp"}}
    THEN 2
    ELSE IF m \in {"add " \o xy \o "," \o rr :
                       xy \in {"ix", "iy"}, rr \in {"bc", "de", "ix", "iy", "sp"}}
    THEN 2
    ELSE IF cbop # "" /\ (is_reg8(cbop) \/ is_hl_indirect(cbop)) THEN 2
    ELSE IF cbop # "" /\ is_ixiy_indirect(cbop) THEN 4
    ELSE IF rsop # "" /\ (is_reg8(rsop) \/ is_hl_indirect(rsop)) THEN 2
    ELSE IF rsop # "" /\ is_ixiy_indirect(rsop) THEN 4
    ELSE IF StartsWith(m, "jr ") \/ StartsWith(m, "djnz ") THEN 2
    ELSE IF StartsWith(m, "jp ") THEN 3
    ELSE IF StartsWith(m, "call ") THEN 3
    ELSE IF InMatch(m) THEN 2
    ELSE IF OutMatch(m) THEN 2
    ELSE IF j > 0 /\ ld > 0 THEN ld
    ELSE IF AluMatch(m) THEN AluSize(m)
    ELSE UnknownInstruction(m)

\* the size in bytes of a Z80 instruction mnemonic string
z80_size(m) == IF Strip(m) = "" THEN 0 ELSE SizeOfStripped(Strip(m))

-----------------------------------------------------------------------------
(* main(): what one source line is, before it touches the state            *)

RECURSIVE CommentScan(_, _, _, _, _)
\* Strip comment (respecting quoted strings): the text up to the first ';'
\* outside quotes
CommentScan(line, j, code, in_quote, quote_char) ==
    IF j > Len(line) THEN code
    ELSE LET ch == Ch(line, j) IN
         IF in_quote
         THEN CommentScan(line, j + 1, code \o ch, ch # quote_char, quote_char)
         ELSE IF ch \in QuoteChars
         THEN CommentScan(line, j + 1, code \o ch, TRUE, ch)
         ELSE IF ch = ";"
         THEN code
         ELSE CommentScan(line, j + 1, code \o ch, FALSE, quote_char)

CodeOf(raw_line) == Strip(CommentScan(RStripNewline(raw_line), 1, "", FALSE, ""))

\* orgm: ^\s*org\s+\$([0-9a-fA-F]+) with re.I; the group, "" when no match
OrgHex(code) ==
    LET a == SkipSet(code, 1, SpaceChars)
        b == SkipSet(code, a + 3, SpaceChars)
        c == SkipSet(code, b + 1, HexChars)
    IN  IF /\ Lower(Take(From(code, a), 3)) = "org"
           /\ b > a + 3
           /\ Ch(code, b) = "$"
           /\ c > b + 1
        THEN SubSeq(code, b + 1, c - 1)
        ELSE ""

\* re.search(r'\bequ\b', code, re.I)
EquMatch(code) ==
    \E i \in 1..(Len(code) - 2) :
        /\ Lower(SubSeq(code, i, i + 2)) = "equ"
        /\ Ch(code, i - 1) \notin WordChars
        /\ Ch(code, i + 3) \notin WordChars

DirectiveWords == <<"defb", "defw", "defs", "db", "dw", "ds">>

\* lm:  ^([a-zA-Z_][a-zA-Z0-9_]*)\s*:
\* lm2: ^([a-zA-Z_][a-zA-Z0-9_]*)\s+(defb|defw|defs|db|dw|ds)\s  with re.I
\* The label ("" for None) and the instruction text of a line.
ExtractLabel(code) ==
    LET j == SkipSet(code, 1, WordChars)
        k == SkipSet(code, j, SpaceChars)
        ident == Ch(code, 1) \in IdentStartChars
    IN  IF ident /\ Ch(code, k) = ":"
        THEN [label |-> Take(code, j - 1), instruction |-> Strip(From(code, k + 1))]
        ELSE IF /\ ident
                /\ k > j
                /\ \E w \in 1..Len(DirectiveWords) :
                      /\ Lower(Take(From(code, k), Len(DirectiveWords[w]))) = DirectiveWords[w]
                      /\ Ch(code, k + Len(DirectiveWords[w])) \in SpaceChars
        THEN [label |-> Take(code, j - 1), instruction |-> Strip(From(code, j))]
        ELSE [label |-> "", instruction |-> code]

\* ^(w1|w2)\s+(.*) on the lower-cased instruction: group 2, "" when no match
DirectiveArg(inst_lower, words) ==
    IF \E w \in words :
           StartsWith(inst_lower, w) /\ Ch(inst_lower, Len(w) + 1) \in SpaceChars
    THEN LET w == CHOOSE w \in words :
                      StartsWith(inst_lower, w) /\ Ch(inst_lower, Len(w) + 1) \in SpaceChars
         IN  From(inst_lower, SkipSet(inst_lower, Len(w) + 1, SpaceChars))
    ELSE ""

\* The path one line takes through the loop body and the size it adds.
LineOf(raw_line) ==
    LET code == CodeOf(raw_line)
        lm   == ExtractLabel(code)
        inst_lower == Strip(Lower(lm.instruction))
        defb == DirectiveArg(inst_lower, {"defb", "db"})
        defw == DirectiveArg(inst_lower, {"defw", "dw"})
        defs == DirectiveArg(inst_lower, {"defs", "ds"})
    IN  IF code = "" THEN [kind |-> "empty", label |-> "", size |-> 0]
        ELSE IF OrgHex(code) # ""
        THEN [kind |-> "org", label |-> "", size |-> 0, org |-> HexValue(OrgHex(code), 0)]
        ELSE IF EquMatch(code) THEN [kind |-> "equ", label |-> "", size |-> 0]
        ELSE IF lm.instruction = "" THEN [kind |-> "label", label |-> lm.label, size |-> 0]
        ELSE IF defb # "" THEN [kind |-> "defb", label |-> lm.label, size |-> count_defb(defb)]
        ELSE IF defw # "" THEN [kind |-> "defw", label |-> lm.label, size |-> count_defw(defw)]
        ELSE IF defs # ""
        THEN [kind |-> "defs", label |-> lm.label, size |-> eval_expr(split_commas(defs)[1])]
        ELSE [kind |-> "instruction", label |-> lm.label, size |-> z80_size(inst_lower)]

-----------------------------------------------------------------------------
(* The label table: a dictionary, which keeps the order of first insertion *)

HasLabel(lbls, name) == \E i \in 1..Len(lbls) : lbls[i][1] = name

LabelAddr(lbls, name) == lbls[CHOOSE i \in 1..Len(lbls) : lbls[i][1] = name][2]

\* a variant that moves a redeclared label to the end of the table
SetLabelMoveLast(lbls, name, addr) ==
    Append(SelectSeq(lbls, LAMBDA e : e[1] # name), <<name, addr>>)

\* labels[label] = pc
SetLabel(lbls, name, addr) ==
    IF HasLabel(lbls, name)
    THEN [i \in 1..Len(lbls) |-> IF lbls[i][1] = name THEN <<name, addr>> ELSE lbls[i]]
    ELSE Append(lbls, <<name, addr>>)

\* a variant that keeps the address of a label's first declaration
RecordLabelOnce(lbls, label, addr) ==
    IF label # "" /\ ~HasLabel(lbls, label) THEN Append(lbls, <<label, addr>>) ELSE lbls

\* if label: labels[label] = pc
RecordLabel(lbls, label, addr) == IF label # "" THEN SetLabel(lbls, label, addr) ELSE lbls

-----------------------------------------------------------------------------
(* Build result sorted by address, handling duplicates                     *)

RECURSIVE GroupByAddr(_, _)
\* addr_to_labels: hex address -> the names at it, both in insertion order
GroupByAddr(lbls, groups) ==
    IF lbls = <<>> THEN groups
    ELSE LET name     == Head(lbls)[1]
             hex_addr == HexStr(Head(lbls)[2])
         IN  GroupByAddr(Tail(lbls),
                 IF \E g \in 1..Len(groups) : groups[g][1] = hex_addr
                 THEN [g \in 1..Len(groups) |->
                          IF groups[g][1] = hex_addr
                          THEN <<hex_addr, Append(groups[g][2], name)>>
                          ELSE groups[g]]
                 ELSE Append(groups, <<hex_addr, <<name>>>>))

RECURSIVE SortByAddr(_)
\* sorted(addr_to_labels.keys(), key=lambda x: int(x, 16)): the least key
\* first, then the rest sorted
SortByAddr(groups) ==
    IF groups = <<>> THEN <<>>
    ELSE LET m == CHOOSE i \in 1..Len(groups) :
                      \A k \in 1..Len(groups) : HexInt(groups[i][1]) <= HexInt(groups[k][1])
         IN  <<groups[m]>> \o
             SortByAddr(SubSeq(groups, 1, m - 1) \o SubSeq(groups, m + 1, Len(groups)))

RECURSIVE Join(_, _)
\* sep.join(names)
Join(names, sep) == IF names = <<>> THEN ""
                    ELSE IF Len(names) = 1 THEN names[1]
                    ELSE names[1] \o sep \o Join(Tail(names), sep)

\* result: the entries hex address -> name or '/'-joined names, by address
BuildResult(lbls) ==
    LET sorted == SortByAddr(GroupByAddr(lbls, <<>>))
    IN  [g \in 1..Len(sorted) |-> <<sorted[g][1], Join(sorted[g][2], "/")>>]

-----------------------------------------------------------------------------
(* Bounds and the texts the model draws its inputs from                    *)

\* the number of source lines in a pass
MaxLines == 3

\* the number of characters between the quotes of a quoted defb operand
MaxStrLen == 3

\* the number of characters of a bare label
MaxNameLen == 3

\* the number of characters of a defb operand list
MaxDataLen == 4

RECURSIVE StringsUpTo(_, _)
\* every string of at most n characters of the alphabet
StringsUpTo(alphabet, n) ==
    IF n = 0 THEN {""}
    ELSE LET S == StringsUpTo(alphabet, n - 1) IN S \cup {s \o c : s \in S, c \in alphabet}

\* The lines of the source files of a pass: every path through the loop
\* body, labels in both forms, quoted text, comments, both directions of org.
SourceLines ==
    {"\n", "; AGD engine\n",
     "org $4\n", "ORG $8000 ; start\n",
     "numspr equ 12\n",
     "a:\n", "b:\n",
     "a: nop\n",
     "b: ld a,(ix+1) ; get\n",
     "msg defb 'a,b;c',0\n",
     "defb '\n",
     "defb \"equ\"\n",
     "buf: defs numobj\n",
     "defs 0-1\n",
     "defw 1,2\n",
     "foo\n", "a: bogus 1\n", "ld h,(addr)\n",
     "ex af,af' ; alt\n"}

\* the characters between the quotes of a quoted string
StrAlphabet == {"e", "q", "u", ",", ";", ":", " ", "'", "\""}

\* byte-reservation lines whose operand is one closed quoted string, with no
\* label, a colon label or a label before the directive
QuotedDefbLines ==
    UNION {{directive \o " " \o q \o s \o q \o "\n" :
               directive \in {"defb", "m: db", "m defb"},
               s \in StringsUpTo(StrAlphabet \ {q}, MaxStrLen)} : q \in QuoteChars}

\* instruction texts, at least one for every rule of the classifier
InstrSample ==
    {"ld hl,(ix+2)", "ld b,(lives)", "and (mask)", "add a,(score)",
     "nop", "ret", "halt", "ex de,hl", "ex af,af'", "ex (sp),hl", "jp (hl)", "ld sp,hl",
     "ret nz", "rst 8", "push af", "pop ix", "push xy", "ex (sp),iy", "jp (ix)",
     "neg", "reti", "im 1", "ld a,r", "rld", "ldir", "outi",
     "inc a", "dec (hl)", "inc de", "dec iy", "inc (ix+3)", "inc (bc)",
     "add hl,de", "sbc hl,bc", "add ix,sp",
     "bit 7,a", "set 0,(hl)", "res 3,(iy-1)", "rl c", "srl (hl)", "sla (ix+0)",
     "jr nz,loop", "djnz loop", "jp z,loop", "call nc,sub1",
     "in a,(254)", "in b,(c)", "out (254),a", "out (c),e",
     "ld a,b", "ld c,(hl)", "ld (hl),d", "ld (hl),5", "ld e,255", "ld h,(ix+1)",
     "ld (iy+2),l", "ld (ix+0),9", "ld a,(de)", "ld (bc),a", "ld sp,ix",
     "ld hl,(addr)", "ld de,(addr)", "ld bc,1000", "ld ix,table", "ld (addr),a",
     "ld (addr),hl", "ld (addr),sp", "ld (addr),iy", "ld a,(addr)", "ld (bc),b",
     "ld h,(addr)", "ld a,','",
     "add a,b", "adc a,(hl)", "sub 5", "sbc a,(ix+1)", "and 7", "or c", "xor a", "cp (hl)",
     "foo", "bogus 1", "org 5"}

\* a line of one instruction followed by a comment
CommentSuffix == " ; comment\n"

CommentedInstrLines == {t \o CommentSuffix : t \in {u \in InstrSample : z80_size(u) > 0}}

\* the lines of a one-line source file
WideLines == SourceLines \cup QuotedDefbLines \cup CommentedInstrLines

\* the characters of a bare label
NameAlphabet == {"b", "c", "d", "e", "h", "l", "i", "x", "y", "_", "1"}

\* ld r,(name) for every 8-bit register and every name [a-z_]\w*
LdNameTexts ==
    {"ld " \o r \o ",(" \o n \o ")" :
        r \in REGS8,
        n \in {s \in StringsUpTo(NameAlphabet, MaxNameLen) : Ch(s, 1) \in LowerStartChars}}

InstrTexts == InstrSample \cup LdNameTexts

\* defb operand lists
DataAlphabet == {"1", "a", ",", "'", "\"", " "}

DefbData == StringsUpTo(DataAlphabet, MaxDataLen) \ {""}

\* LineOf on the lines of a pass, computed once
LineTable == [raw_line \in SourceLines |-> LineOf(raw_line)]

-----------------------------------------------------------------------------
(* main(): the pass over the lines, then the consolidation.  Every action  *)
(* is one path through the loop body for the line raw_line; L is           *)
(* LineOf(raw_line).                                                       *)

Init ==
    /\ lines = <<>>
    /\ pc = 0
    /\ labels = <<>>
    /\ size = 0
    /\ phase = "pass"
    /\ result = <<>>
    /\ call = "main"
    /\ arg = ""
    /\ ret = 0

\* for i, raw_line in enumerate(lines)
Read(raw_line) ==
    /\ phase = "pass"
    /\ lines' = Append(lines, raw_line)
    /\ UNCHANGED <<phase, result, call, arg, ret>>

\* if not code: continue
EmptyLine(raw_line, L) ==
    /\ L.kind = "empty"
    /\ Read(raw_line)
    /\ UNCHANGED <<pc, labels, size>>

\* a variant that adds the origin to the counter
OrgLineRelative(raw_line, L) ==
    /\ L.kind = "org"
    /\ Read(raw_line)
    /\ pc' = pc + L.org
    /\ UNCHANGED <<labels, size>>

\* Handle ORG
OrgLine(raw_line, L) ==
    /\ L.kind = "org"
    /\ Read(raw_line)
    /\ pc' = L.org
    /\ UNCHANGED <<labels, size>>

\* Handle EQU
EquLine(raw_line, L) ==
    /\ L.kind = "equ"
    /\ Read(raw_line)
    /\ UNCHANGED <<pc, labels, size>>

\* a label and nothing after it: if not instruction: continue
LabelLine(raw_line, L) ==
    /\ L.kind = "label"
    /\ Read(raw_line)
    /\ labels' = RecordLabel(labels, L.label, pc)
    /\ UNCHANGED <<pc, size>>

\* label capture, then pc += size
Advance(raw_line, L) ==
    /\ Read(raw_line)
    /\ labels' = RecordLabel(labels, L.label, pc)
    /\ size' = L.size
    /\ pc' = pc + L.size

DefbLine(raw_line, L) == L.kind = "defb" /\ Advance(raw_line, L)

DefwLine(raw_line, L) == L.kind = "defw" /\ Advance(raw_line, L)

DefsLine(raw_line, L) == L.kind = "defs" /\ Advance(raw_line, L)

\* Regular instruction
InstructionLine(raw_line, L) == L.kind = "instruction" /\ Advance(raw_line, L)

\* the end of the input: the result is built from the label table
Consolidate ==
    /\ phase = "pass"
    /\ phase' = "done"
    /\ result' = BuildResult(labels)
    /\ UNCHANGED <<lines, pc, labels, size, call, arg, ret>>

\* the source file has more lines
MoreLines == Len(lines) < MaxLines

Next ==
    \/ MoreLines /\ \E raw_line \in SourceLines : EmptyLine(raw_line, LineTable[raw_line])
    \/ MoreLines /\ \E raw_line \in SourceLines : OrgLine(raw_line, LineTable[raw_line])
    \/ MoreLines /\ \E raw_line \in SourceLines : EquLine(raw_line, LineTable[raw_line])
    \/ MoreLines /\ \E raw_line \in SourceLines : LabelLine(raw_line, LineTable[raw_line])
    \/ MoreLines /\ \E raw_line \in SourceLines : DefbLine(raw_line, LineTable[raw_line])
    \/ MoreLines /\ \E raw_line \in SourceLines : DefwLine(raw_line, LineTable[raw_line])
    \/ MoreLines /\ \E raw_line \in SourceLines : DefsLine(raw_line, LineTable[raw_line])
    \/ MoreLines /\ \E raw_line \in SourceLines : InstructionLine(raw_line, LineTable[raw_line])
    \/ Consolidate

Spec == Init /\ [][Next]_vars

\* a source file of one line, the line drawn from a wide set
OneLine == Len(lines) < 1

NextLine ==
    \/ OneLine /\ \E raw_line \in WideLines : \E L \in {LineOf(raw_line)} : EmptyLine(raw_line, L)
    \/ OneLine /\ \E raw_line \in WideLines : \E L \in {LineOf(raw_line)} : OrgLine(raw_line, L)
    \/ OneLine /\ \E raw_line \in WideLines : \E L \in {LineOf(raw_line)} : EquLine(raw_line, L)
    \/ OneLine /\ \E raw_line \in WideLines : \E L \in {LineOf(raw_line)} : LabelLine(raw_line, L)
    \/ OneLine /\ \E raw_line \in WideLines : \E L \in {LineOf(raw_line)} : DefbLine(raw_line, L)
    \/ OneLine /\ \E raw_line \in WideLines : \E L \in {LineOf(raw_line)} : DefwLine(raw_line, L)
    \/ OneLine /\ \E raw_line \in WideLines : \E L \in {LineOf(raw_line)} : DefsLine(raw_line, L)
    \/ OneLine /\ \E raw_line \in WideLines : \E L \in {LineOf(raw_line)} : InstructionLine(raw_line, L)
    \/ Consolidate

LineSpec == Init /\ [][NextLine]_vars

-----------------------------------------------------------------------------
(* The sizing functions on their own: a text goes in, a size comes out     *)

InitSizer ==
    /\ lines = <<>>
    /\ pc = 0
    /\ labels = <<>>
    /\ size = 0
    /\ result = <<>>
    /\ phase = "call"
    /\ ret = 0
    /\ \/ call = "z80_size" /\ arg \in InstrTexts
       \/ call = "count_defb" /\ arg \in DefbData

Z80SizeReturns ==
    /\ phase = "call"
    /\ call = "z80_size"
    /\ ret' = z80_size(arg)
    /\ phase' = "return"
    /\ UNCHANGED <<lines, pc, labels, size, result, call, arg>>

CountDefbReturns ==
    /\ phase = "call"
    /\ call = "count_defb"
    /\ ret' = count_defb(arg)
    /\ phase' = "return"
    /\ UNCHANGED <<lines, pc, labels, size, result, call, arg>>

NextSizer == Z80SizeReturns \/ CountDefbReturns

SizerSpec == InitSizer /\ [][NextSizer]_vars


-----------------------------------------------------------------------------
(* Properties of the pass, under Spec.  What a line declares and what a    *)
(* source adds up to are recomputed here from the lines read so far.       *)

\* the label a line of the pass declares, "" when it declares none
Declares(raw_line) ==
    IF LineTable[raw_line].kind \in {"empty", "org", "equ"} THEN ""
    ELSE LineTable[raw_line].label

RECURSIVE ReplayPc(_)
\* the counter after a source: an origin sets it, any other line adds its size
ReplayPc(src) ==
    IF src = <<>> THEN 0
    ELSE LET L == LineTable[src[Len(src)]]
         IN  IF L.kind = "org" THEN L.org
             ELSE ReplayPc(SubSeq(src, 1, Len(src) - 1)) + L.size

\* the line of the last declaration of a name, 0 when no line declares it
LastDeclaration(name) ==
    IF \E i \in 1..Len(lines) : Declares(lines[i]) = name
    THEN CHOOSE i \in 1..Len(lines) :
             /\ Declares(lines[i]) = name
             /\ \A j \in (i + 1)..Len(lines) : Declares(lines[j]) # name
    ELSE 0

\* the names the source declares
DeclaredNames == {Declares(lines[i]) : i \in 1..Len(lines)} \ {""}

\* C1: every label of the label table maps to the value the program counter
\* had just before the bytes of the label's own line were added, and a name
\* declared on several lines maps to the pre-advance counter of its last
\* declaration; the table holds exactly the declared names.
C1_LabelAtPreAdvanceCounter ==
    /\ {labels[k][1] : k \in 1..Len(labels)} = DeclaredNames
    /\ \A k \in 1..Len(labels) :
          /\ LastDeclaration(labels[k][1]) > 0
          /\ labels[k][2] = ReplayPc(SubSeq(lines, 1, LastDeclaration(labels[k][1]) - 1))

\* a label declared twice on lines that add bytes: the second declaration's
\* pre-advance counter is in the table, not the counter after the line
C1_Witness ==
    /\ lines = <<"a: nop\n", "b: ld a,(ix+1) ; get\n", "a: nop\n">>
    /\ labels = <<<<"a", 4>>, <<"b", 1>>>>
    /\ pc = 5

\* the lines after line i up to line j add no bytes and set no origin
ZeroWidthBetween(i, j) ==
    \A k \in (i + 1)..(j - 1) :
        LineTable[lines[k]].kind # "org" /\ LineTable[lines[k]].size = 0

\* C2, the step: processing an origin-setting line sets the program counter
\* to the literal hexadecimal value whatever it was before, adds no bytes to
\* it and leaves the label table unchanged.
C2_OrgStep ==
    \A raw_line \in {"org $4\n", "ORG $8000 ; start\n"} :
        lines' = Append(lines, raw_line) =>
            /\ pc' = (IF raw_line = "org $4\n" THEN 4 ELSE 32768)
            /\ labels' = labels
            /\ size' = size

\* C2, the consequence: the next labelled line after an origin-setting line,
\* with no byte-adding line in between, is recorded at the literal value.
C2_NextLabelAtOrigin ==
    \A i \in 1..Len(lines) : \A j \in (i + 1)..Len(lines) :
        ( /\ LineTable[lines[i]].kind = "org"
          /\ ZeroWidthBetween(i, j)
          /\ \A k \in (i + 1)..(j - 1) : Declares(lines[k]) = ""
          /\ Declares(lines[j]) # ""
          /\ LastDeclaration(Declares(lines[j])) = j )
        => /\ HasLabel(labels, Declares(lines[j]))
           /\ LabelAddr(labels, Declares(lines[j])) = LineTable[lines[i]].org

\* C2: an origin-setting line sets the program counter exactly to its
\* literal value, contributes no bytes and leaves the label table unchanged,
\* and the next labelled line is recorded at exactly that value.
C2_OrgSetsCounter == [][C2_OrgStep]_vars /\ []C2_NextLabelAtOrigin

\* the counter has advanced, an origin lowers it and the next line is labelled
C2_Witness ==
    /\ lines = <<"b: ld a,(ix+1) ; get\n", "org $4\n", "a: nop\n">>
    /\ pc = 5
    /\ labels = <<<<"b", 0>>, <<"a", 4>>>>

\* C3: the program counter is never negative, and every step other than an
\* origin-setting line leaves it equal to or greater than its previous
\* value, for every directive kind.
C3_CounterNeverDecreases ==
    [][ /\ pc' >= 0
        /\ (\A raw_line \in SourceLines :
               (lines' = Append(lines, raw_line) /\ LineTable[raw_line].kind # "org")
                   => pc' >= pc) ]_vars

\* instruction texts that no rule of the classifier sizes
UnknownTexts == {"foo", "bogus 1", "ld h,(addr)"}

\* the lines of the pass whose instruction text is unknown
UnknownLines ==
    {raw_line \in SourceLines : ExtractLabel(CodeOf(raw_line)).instruction \in UnknownTexts}

\* the label in front of a line's instruction text
LabelOf(raw_line) == ExtractLabel(CodeOf(raw_line)).label

\* C4, the step: an unknown line is sized 0, leaves the program counter
\* unchanged, still records its label at the current counter, and the pass
\* goes on.
C4_UnknownStep ==
    \A raw_line \in UnknownLines :
        lines' = Append(lines, raw_line) =>
            /\ size' = 0
            /\ pc' = pc
            /\ phase' = "pass"
            /\ \A k \in 1..Len(labels) :
                  labels[k][1] # LabelOf(raw_line) =>
                      HasLabel(labels', labels[k][1])
                      /\ LabelAddr(labels', labels[k][1]) = labels[k][2]
            /\ LabelOf(raw_line) # "" =>
                  HasLabel(labels', LabelOf(raw_line))
                  /\ LabelAddr(labels', LabelOf(raw_line)) = pc
            /\ {labels'[k][1] : k \in 1..Len(labels')} =
                  {labels[k][1] : k \in 1..Len(labels)} \cup ({LabelOf(raw_line)} \ {""})

\* C4, the rest of the pass: the counter is the one the source gives with
\* its unknown lines taken out.
C4_AsIfAbsent ==
    pc = ReplayPc(SelectSeq(lines, LAMBDA raw_line : raw_line \notin UnknownLines))

\* C4: an instruction text that matches no rule is sized 0 without stopping
\* the pass; the counter is unchanged for that line, a label on it is still
\* recorded at the current counter, and every later line is processed as if
\* the unknown line were absent, up to the end of input.
C4_UnknownAddsNothing == [][C4_UnknownStep]_vars /\ []C4_AsIfAbsent

\* an unknown line with a label between two sized lines, then the end
C4_Witness ==
    /\ lines = <<"b: ld a,(ix+1) ; get\n", "a: bogus 1\n", "defw 1,2\n">>
    /\ labels = <<<<"b", 0>>, <<"a", 3>>>>
    /\ pc = 7
    /\ phase = "done"

RECURSIVE FirstDeclared(_)
\* the declared names in the order of their first declaration in a source
FirstDeclared(src) ==
    IF src = <<>> THEN <<>>
    ELSE LET before == FirstDeclared(SubSeq(src, 1, Len(src) - 1))
             name   == Declares(src[Len(src)])
         IN  IF name = "" \/ \E k \in 1..Len(before) : before[k] = name
             THEN before
             ELSE Append(before, name)

\* the names recorded at an address, in the order of first declaration
NamesAt(hex_addr) ==
    SelectSeq(FirstDeclared(lines),
              LAMBDA name : HasLabel(labels, name) /\ HexStr(LabelAddr(labels, name)) = hex_addr)

\* C8: in the consolidated output every label of the final table appears in
\* exactly one entry, keyed by its address, and the labels of one address
\* appear together in that entry, joined with '/' in the order in which
\* they were first declared in the source.
C8_OneEntryPerAddress ==
    phase = "done" =>
        /\ \A g, h \in 1..Len(result) : result[g][1] = result[h][1] => g = h
        /\ \A g \in 1..Len(result) :
              /\ NamesAt(result[g][1]) # <<>>
              /\ result[g][2] = Join(NamesAt(result[g][1]), "/")
        /\ \A k \in 1..Len(labels) :
              \E g \in 1..Len(result) : result[g][1] = HexStr(labels[k][2])

\* two labels on consecutive zero-width lines, the first declared again
\* after the second: one entry, the names in first-declared order
C8_Witness ==
    /\ phase = "done"
    /\ lines = <<"a:\n", "b:\n", "a:\n">>
    /\ result = <<<<"0", "a/b">>>>

-----------------------------------------------------------------------------
(* Properties of the sizing functions, under SizerSpec                     *)

\* bare labels: identifiers that are no register pair and no ix/iy form
BareLabels ==
    {n \in StringsUpTo(NameAlphabet, MaxNameLen) :
        /\ Ch(n, 1) \in LowerStartChars
        /\ n \notin {"hl", "bc", "de"}
        /\ Take(n, 2) \notin {"ix", "iy"}}

\* ld r,(L) for every 8-bit register r and every bare label L
Reg8LabelLoads == {"ld " \o r \o ",(" \o n \o ")" : r \in REGS8, n \in BareLabels}

\* ld r,(L) for the registers b, c, d, e and every bare label L
BcdeLabelLoads ==
    {"ld " \o r \o ",(" \o n \o ")" : r \in {"b", "c", "d", "e"}, n \in BareLabels}

\* C5 as stated: for every 8-bit register r (a, b, c, d, e, h, l) and every
\* bare label L, z80_size("ld r,(L)") returns 2.
C5_EveryReg8LabelLoadIsTwo ==
    (call = "z80_size" /\ phase = "return" /\ arg \in Reg8LabelLoads) => ret = 2

\* C5 as amended: for the registers b, c, d, e and every bare label L,
\* z80_size("ld r,(L)") returns 2, ahead of every general load rule.
C5_BcdeLabelLoadIsTwo ==
    (call = "z80_size" /\ phase = "return" /\ arg \in BcdeLabelLoads) => ret = 2

\* a load of d from a label that starts like a register pair and like an
\* index register without being one has returned 2
C5_Witness ==
    call = "z80_size" /\ phase = "return" /\ arg \in {"ld d,(hl1)", "ld c,(i_x)"} /\ ret = 2

\* a quoted string: two or more characters, the first a quote character and
\* the last the same quote character
IsQuotedString(p) == Len(p) >= 2 /\ Ch(p, 1) \in QuoteChars /\ Ch(p, Len(p)) = Ch(p, 1)

RECURSIVE ItemBytes(_)
\* L - 2 for a quoted string item of length L, 1 for every other item
ItemBytes(parts) ==
    IF parts = <<>> THEN 0
    ELSE (IF IsQuotedString(Head(parts)) THEN Len(Head(parts)) - 2 ELSE 1)
         + ItemBytes(Tail(parts))

\* C6: count_defb returns the sum over the items the tokenizer produces of
\* L - 2 for a quoted string of length L and of 1 for every other item, and
\* the result is never negative.
C6_DefbIsSumOfItems ==
    (call = "count_defb" /\ phase = "return") =>
        ret = ItemBytes(split_commas(arg)) /\ ret >= 0

-----------------------------------------------------------------------------
(* Properties of one line through the engine, under LineSpec               *)

\* the number of characters between the quotes of a line that ends with its
\* closing quote
BetweenQuotes(raw_line) ==
    LET open == CHOOSE i \in 1..Len(raw_line) :
                    /\ Ch(raw_line, i) \in QuoteChars
                    /\ \A j \in 1..(i - 1) : Ch(raw_line, j) \notin QuoteChars
    IN  Len(RStripNewline(raw_line)) - open - 1

\* C7: a byte-reservation line whose operand is one closed quoted string
\* advances the program counter by the number of characters between the
\* quotes, whatever those characters are.
C7_QuotedStringAdvance ==
    (Len(lines) = 1 /\ lines[1] \in QuotedDefbLines) => pc = BetweenQuotes(lines[1])

RECURSIVE Unquoted(_, _, _)
\* the text outside quoted strings
Unquoted(code, j, quote_char) ==
    IF j > Len(code) THEN ""
    ELSE IF quote_char # ""
    THEN Unquoted(code, j + 1, IF Ch(code, j) = quote_char THEN "" ELSE quote_char)
    ELSE IF Ch(code, j) \in QuoteChars THEN " " \o Unquoted(code, j + 1, Ch(code, j))
    ELSE Ch(code, j) \o Unquoted(code, j + 1, "")

\* a constant-definition line: the word equ outside quoted strings
IsConstantDefinition(code) == EquMatch(Unquoted(code, 1, ""))

\* the size the data-directive sizer or the classifier returns for a text
SizeOfText(instruction) ==
    LET inst_lower == Strip(Lower(instruction))
        defb == DirectiveArg(inst_lower, {"defb", "db"})
        defw == DirectiveArg(inst_lower, {"defw", "dw"})
        defs == DirectiveArg(inst_lower, {"defs", "ds"})
    IN  IF defb # "" THEN count_defb(defb)
        ELSE IF defw # "" THEN count_defw(defw)
        ELSE IF defs # "" THEN eval_expr(split_commas(defs)[1])
        ELSE z80_size(inst_lower)

\* C9: a line is skipped entirely, counter and label table unchanged, only
\* when it is a constant definition or empty after comment stripping; every
\* other line that sets no origin has its label recorded and the counter
\* advanced by the size returned for its instruction text.
C9_OnlyEquAndEmptySkipped ==
    Len(lines) = 1 =>
        LET code == CodeOf(lines[1])
            lm   == ExtractLabel(code)
        IN  IF code = "" \/ IsConstantDefinition(code)
            THEN pc = 0 /\ labels = <<>>
            ELSE OrgHex(code) = "" =>
                    /\ labels = (IF lm.label = "" THEN <<>> ELSE <<<<lm.label, 0>>>>)
                    /\ pc = SizeOfText(lm.instruction)

\* C10: a trailing comment never changes the bytes a line adds: the line of
\* an instruction text sized n > 0 followed by ' ; comment' advances the
\* program counter by n.
C10_CommentAddsNoBytes ==
    (Len(lines) = 1 /\ lines[1] \in CommentedInstrLines) =>
        pc = z80_size(Take(lines[1], Len(lines[1]) - Len(CommentSuffix)))

=============================================================================
